---- MODULE Spec2Model ----
(***************************************************************************)
(* Model of the useWakeLock hook of src/src/use-wake-lock.ts.              *)
(*                                                                         *)
(* The hook keeps a ref to the current WakeLockSentinel (wakeLock), a      *)
(* tri-state React state cell (released) and registers a                   *)
(* 'visibilitychange' listener on the document.  request, release and      *)
(* destroy are async functions: each runs synchronously up to its await    *)
(* of one platform promise and resumes when the platform settles it.  The  *)
(* platform (navigator.wakeLock, the sentinels, the document) is modelled  *)
(* as the environment: it settles pending promises in any order and may    *)
(* release a held sentinel at any time.                                    *)
(*                                                                         *)
(* Functions created by the hook are identified by the render that created *)
(* them: handleVisibilityReturn is a new function on every render, request *)
(* and destroy are memoized by React.useCallback and close over the        *)
(* handleVisibilityReturn of the render that created them.                 *)
(***************************************************************************)
EXTENDS Integers, Sequences, FiniteSets, Bags, TLC

\* bounds of the model
MaxHandles == 2
MaxPending == 2
MaxRender == 2

Kinds == {"screen"}
Errors == {"NotAllowedError", "AbortError"}

VARIABLES
    isSupported,            \* line 23, fixed for the component's lifetime
    releasedFieldSupported, \* does the platform implement WakeLockSentinel.released
    wakeLock,               \* wakeLock.current: 0 is null, else an index of sentinels
    released,               \* the React state cell: "undefined", "true" or "false"
    sentinels,              \* the sentinels the platform has handed out
    listeners,              \* registered 'visibilitychange' listeners (by render)
    visibilityState,        \* document.visibilityState
    render,                 \* number of the latest render of the component
    inlineCallbacks,        \* the caller passes new onRequest, ... functions on every render
    pending,                \* platform promises awaited by request/release/destroy
    recordCalls,            \* history: keep the state each request call was made in
    last                    \* history: the step just taken and its effects

\* set at construction and never assigned again
fixed == <<isSupported, releasedFieldSupported, inlineCallbacks, recordCalls>>

vars == <<isSupported, releasedFieldSupported, wakeLock, released, sentinels,
          listeners, visibilityState, render, inlineCallbacks, pending, recordCalls,
          last>>

----------------------------------------------------------------------------
\* effects of a step: platform calls, callbacks, warnings, in program order

Eff(e) == [e |-> e, arg |-> ""]

Count(eff, e) == Cardinality({i \in DOMAIN eff : eff[i].e = e})

\* the state a request call was made in, whether it was made right after an
\* acquire was rejected or a release completed (after), and whether
\* handleVisibilityReturn made it (auto), kept with the promise it awaits
NoCall == [wakeLock |-> 0, released |-> "undefined", after |-> "", auto |-> FALSE]

Here(auto) ==
    IF recordCalls
    THEN [wakeLock |-> wakeLock, released |-> released,
          after |-> IF last.op \in {"rejected", "released"} THEN last.op ELSE "",
          auto |-> auto]
    ELSE NoCall

\* thrown: the error the async function running in the step ends with (its
\* promise rejects with it), "" when it returns or is suspended at its await
Step(op, kind, h, call, eff) ==
    [op |-> op, kind |-> kind, h |-> h, err |-> "", thrown |-> "", call |-> call,
     eff |-> eff]

----------------------------------------------------------------------------
\* JavaScript reads

\* wakeLock.current && wakeLock.current.released, read on sentinels s with ref wl
ReleasedRead(s, wl) ==
    IF wl = 0 THEN "null"
    ELSE IF ~releasedFieldSupported THEN "undefined"
    ELSE IF s[wl].released THEN "true" ELSE "false"

Truthy(v) == v = "true"

\* v || d
OrElse(v, d) == IF Truthy(v) THEN v ELSE d

\* a slip: the default of line 49 used at line 42
OnReleaseValueDefaultFalse(s, wl) == OrElse(ReleasedRead(s, wl), "false")

\* line 42: (wakeLock.current && wakeLock.current.released) || true
OnReleaseValue(s, wl) == OrElse(ReleasedRead(s, wl), "true")

\* a slip: the default of line 42 used at line 49
OnRequestValueDefaultTrue(s, wl) == OrElse(ReleasedRead(s, wl), "true")

\* line 49: (wakeLock.current && wakeLock.current.released) || false
OnRequestValue(s, wl) == OrElse(ReleasedRead(s, wl), "false")

\* line 108: (wakeLock.current && wakeLock.current.type) || undefined
Type == IF wakeLock = 0 THEN "undefined" ELSE sentinels[wakeLock].type

----------------------------------------------------------------------------
\* pending platform promises

\* pending is a bag: two calls made in the same state await equal promises.
\* t: the awaiting function; gen: the render that created it; h: the sentinel
\* being released; call: for request, the state it was called in
Op(t, kind, gen, h, call) ==
    [t |-> t, kind |-> kind, gen |-> gen, h |-> h, call |-> call]

Add(p, o) == p (+) SetToBag({o})

Remove(p, o) == p (-) SetToBag({o})

\* React.useCallback, line 54: the request seen by render g was created by
\* render g when a dependency changed on every render, else by the first render
RequestOf(g) == IF inlineCallbacks THEN g ELSE 1

\* React.useCallback, line 100
DestroyOf(g) == IF inlineCallbacks THEN g ELSE 1

Warned(p) == [pending |-> p, eff |-> <<Eff("warn")>>]

----------------------------------------------------------------------------
\* the synchronous part of each async function (up to its first await)

\* a slip: destroy returns without its warning when there is no sentinel
DestroyCallSilent(d, p) ==
    IF ~isSupported THEN Warned(p)
    ELSE IF wakeLock = 0 THEN [pending |-> p, eff |-> <<>>]
    ELSE [pending |-> Add(p, Op("destroy", "", d, wakeLock, NoCall)),
          eff |-> <<Eff("release")>>]

\* destroy created by render d, lines 82-95
DestroyCall(d, p) ==
    IF ~isSupported THEN Warned(p)
    ELSE IF wakeLock = 0 THEN Warned(p)
    ELSE [pending |-> Add(p, Op("destroy", "", d, wakeLock, NoCall)),
          eff |-> <<Eff("release")>>]

\* a slip: request without the isSupported check of lines 28-32
RequestCallUnchecked(r, kind, auto, p) ==
    LET torn == IF wakeLock # 0 THEN DestroyCall(DestroyOf(r), p)
                ELSE [pending |-> p, eff |-> <<>>]
    IN  [pending |-> Add(torn.pending, Op("acquire", kind, r, 0, Here(auto))),
         eff |-> torn.eff \o <<Eff("acquire")>>]

\* request created by render r, lines 26-38; destroy() is called, not awaited;
\* auto: the caller is handleVisibilityReturn (line 63), not the application
RequestCall(r, kind, auto, p) ==
    IF ~isSupported THEN Warned(p)
    ELSE LET torn == IF wakeLock # 0 THEN DestroyCall(DestroyOf(r), p)
                     ELSE [pending |-> p, eff |-> <<>>]
         IN  [pending |-> Add(torn.pending, Op("acquire", kind, r, 0, Here(auto))),
              eff |-> torn.eff \o <<Eff("acquire")>>]

\* release, lines 67-79
ReleaseCall(p) ==
    IF ~isSupported THEN Warned(p)
    ELSE IF wakeLock = 0 THEN Warned(p)
    ELSE [pending |-> Add(p, Op("release", "", 0, wakeLock, NoCall)),
          eff |-> <<Eff("release")>>]

\* a slip: handleVisibilityReturn without the read of the released field
ReturnedUnread(vis) == vis = "visible" /\ wakeLock # 0

\* the condition of handleVisibilityReturn, lines 58-62
Returned(vis) ==
    vis = "visible" /\ wakeLock # 0 /\ Truthy(ReleasedRead(sentinels, wakeLock))

\* handleVisibilityReturn of render g, lines 57-65, run with visibility vis
HandleVisibilityReturn(g, vis, p) ==
    IF Returned(vis)
    THEN RequestCall(RequestOf(g), "screen", TRUE, p)
    ELSE [pending |-> p, eff |-> <<>>]

Min(S) == CHOOSE x \in S : \A y \in S : x <= y

\* the document calls every registered listener
RECURSIVE Dispatch(_, _, _)
Dispatch(ls, vis, acc) ==
    IF ls = {} THEN acc
    ELSE LET g == Min(ls)
             r == HandleVisibilityReturn(g, vis, acc.pending)
         IN  Dispatch(ls \ {g}, vis, [pending |-> r.pending, eff |-> acc.eff \o r.eff])

\* room for the promises a step creates
Room(n) == BagCardinality(pending) + n <= MaxPending

----------------------------------------------------------------------------
\* the platform releases sentinel h: its flag is set and its onrelease
\* handler (lines 40-44) runs; an already released sentinel fires nothing.
\* A release() called by the hook takes effect when its promise settles.

Released(h) ==
    IF sentinels[h].released
    THEN [sentinels |-> sentinels, released |-> released, eff |-> <<>>]
    ELSE LET s == [sentinels EXCEPT ![h].released = TRUE]
         IN  [sentinels |-> s, released |-> OnReleaseValue(s, wakeLock),
              eff |-> <<Eff("setReleased"), Eff("onRelease")>>]

----------------------------------------------------------------------------
\* the hook after its first render; record: whether request calls are recorded
Start(record) ==
    /\ isSupported \in BOOLEAN
    /\ releasedFieldSupported \in BOOLEAN
    /\ wakeLock = 0
    /\ released = "undefined"
    /\ sentinels = <<>>
    /\ listeners = {}
    /\ visibilityState = "visible"
    /\ render = 1
    /\ inlineCallbacks \in BOOLEAN
    /\ pending = EmptyBag
    /\ recordCalls = record
    /\ last = Step("init", "", 0, NoCall, <<>>)

Init == Start(FALSE)

\* the application calls the request of the latest render
Request(kind) ==
    /\ Room(IF wakeLock # 0 THEN 2 ELSE 1)
    /\ LET r == RequestCall(RequestOf(render), kind, FALSE, pending)
       IN  /\ pending' = r.pending
           /\ last' = Step("request", kind, wakeLock, NoCall, r.eff)
    /\ UNCHANGED <<fixed, wakeLock, released, sentinels, listeners, visibilityState, render>>

\* the application calls release
Release ==
    /\ Room(1)
    /\ LET r == ReleaseCall(pending)
       IN  /\ pending' = r.pending
           /\ last' = Step("release", "", wakeLock, NoCall, r.eff)
    /\ UNCHANGED <<fixed, wakeLock, released, sentinels, listeners, visibilityState, render>>

\* the application calls the destroy of the latest render
Destroy ==
    /\ Room(1)
    /\ LET r == DestroyCall(DestroyOf(render), pending)
       IN  /\ pending' = r.pending
           /\ last' = Step("destroy", "", wakeLock, NoCall, r.eff)
    /\ UNCHANGED <<fixed, wakeLock, released, sentinels, listeners, visibilityState, render>>

\* a slip: request returns after onRequest, without line 49
AcquireResolveUnset(o) ==
    /\ o.t = "acquire"
    /\ Len(sentinels) < MaxHandles
    /\ LET s == Append(sentinels, [type |-> o.kind, released |-> FALSE])
           h == Len(s)
       IN  /\ sentinels' = s
           /\ wakeLock' = h
           /\ listeners' = listeners \cup {o.gen}
           /\ last' = Step("acquired", o.kind, h, o.call,
                           <<Eff("subscribe"), Eff("onRequest")>>)
    /\ pending' = Remove(pending, o)
    /\ UNCHANGED <<fixed, released, visibilityState, render>>

\* navigator.wakeLock.request resolves: request resumes at line 38
AcquireResolve(o) ==
    /\ o.t = "acquire"
    /\ Len(sentinels) < MaxHandles
    /\ LET s == Append(sentinels, [type |-> o.kind, released |-> FALSE])
           h == Len(s)
       IN  /\ sentinels' = s
           /\ wakeLock' = h
           /\ listeners' = listeners \cup {o.gen}
           /\ released' = OnRequestValue(s, h)
           /\ last' = Step("acquired", o.kind, h, o.call,
                           <<Eff("subscribe"), Eff("onRequest"), Eff("setReleased")>>)
    /\ pending' = Remove(pending, o)
    /\ UNCHANGED <<fixed, visibilityState, render>>

\* a slip: the catch block swallows the error
AcquireRejectSilent(o, e) ==
    /\ o.t = "acquire"
    /\ pending' = Remove(pending, o)
    /\ last' = [Step("rejected", o.kind, 0, o.call, <<>>) EXCEPT !.err = e]
    /\ UNCHANGED <<fixed, wakeLock, released, sentinels, listeners, visibilityState, render>>

\* a slip: no try/catch around the await of line 38, the error leaves request
AcquireRejectUncaught(o, e) ==
    /\ o.t = "acquire"
    /\ pending' = Remove(pending, o)
    /\ last' = [Step("rejected", o.kind, 0, o.call, <<>>) EXCEPT !.err = e, !.thrown = e]
    /\ UNCHANGED <<fixed, wakeLock, released, sentinels, listeners, visibilityState, render>>

\* navigator.wakeLock.request rejects with e: the await of line 38 throws e,
\* the catch of line 50 takes it, calls onError and request returns
AcquireReject(o, e) ==
    /\ o.t = "acquire"
    /\ pending' = Remove(pending, o)
    /\ last' = [Step("rejected", o.kind, 0, o.call, <<[e |-> "onError", arg |-> e]>>)
                   EXCEPT !.err = e]
    /\ UNCHANGED <<fixed, wakeLock, released, sentinels, listeners, visibilityState, render>>

\* a slip: release finishes like destroy and clears the ref
ReleaseCompleteClears(o) ==
    /\ o.t = "release"
    /\ LET p == Released(o.h)
       IN  /\ sentinels' = p.sentinels
           /\ released' = p.released
           /\ last' = Step("released", "", o.h, o.call, p.eff)
    /\ wakeLock' = 0
    /\ pending' = Remove(pending, o)
    /\ UNCHANGED <<fixed, listeners, visibilityState, render>>

\* a slip: release finishes like destroy and removes the listener
ReleaseCompleteUnsubscribes(o) ==
    /\ o.t = "release"
    /\ LET p == Released(o.h)
       IN  /\ sentinels' = p.sentinels
           /\ released' = p.released
           /\ last' = Step("released", "", o.h, o.call, p.eff)
    /\ listeners' = {}
    /\ pending' = Remove(pending, o)
    /\ UNCHANGED <<fixed, wakeLock, visibilityState, render>>

\* the sentinel's release() settles for release: line 79 resumes and returns
ReleaseComplete(o) ==
    /\ o.t = "release"
    /\ LET p == Released(o.h)
       IN  /\ sentinels' = p.sentinels
           /\ released' = p.released
           /\ last' = Step("released", "", o.h, o.call, p.eff)
    /\ pending' = Remove(pending, o)
    /\ UNCHANGED <<fixed, wakeLock, listeners, visibilityState, render>>

\* a slip: the then-callback of destroy without line 97
DestroyCompleteKeepsRef(o) ==
    /\ o.t = "destroy"
    /\ LET p == Released(o.h)
       IN  /\ sentinels' = p.sentinels
           /\ released' = p.released
           /\ listeners' = listeners \ {o.gen}
           /\ last' = Step("destroyed", "", o.h, o.call,
                           p.eff \o <<Eff("unsubscribe"), Eff("onDestroy")>>)
    /\ pending' = Remove(pending, o)
    /\ UNCHANGED <<fixed, wakeLock, visibilityState, render>>

\* the sentinel's release() settles for destroy: the then-callback, lines 95-99
DestroyComplete(o) ==
    /\ o.t = "destroy"
    /\ LET p == Released(o.h)
       IN  /\ sentinels' = p.sentinels
           /\ released' = p.released
           /\ listeners' = listeners \ {o.gen}
           /\ wakeLock' = 0
           /\ last' = Step("destroyed", "", o.h, o.call,
                           p.eff \o <<Eff("unsubscribe"), Eff("onDestroy")>>)
    /\ pending' = Remove(pending, o)
    /\ UNCHANGED <<fixed, visibilityState, render>>

\* the platform releases a held sentinel on its own (page hidden, battery, ...)
PlatformRelease(h) ==
    /\ ~sentinels[h].released
    /\ LET p == Released(h)
       IN  /\ sentinels' = p.sentinels
           /\ released' = p.released
           /\ last' = Step("platformRelease", "", h, NoCall, p.eff)
    /\ UNCHANGED <<fixed, wakeLock, listeners, visibilityState, render, pending>>

\* the document's visibility changes and 'visibilitychange' is dispatched
VisibilityChange(vis) ==
    /\ vis # visibilityState
    /\ Room(IF Returned(vis) THEN 2 * Cardinality(listeners) ELSE 0)
    /\ visibilityState' = vis
    /\ LET r == Dispatch(listeners, vis, [pending |-> pending, eff |-> <<>>])
       IN  /\ pending' = r.pending
           /\ last' = Step("visibilitychange", vis, wakeLock, NoCall, r.eff)
    /\ UNCHANGED <<fixed, wakeLock, released, sentinels, listeners, render>>

\* the component renders again: handleVisibilityReturn (line 57) is a new
\* function, request and destroy are new ones when their dependencies changed
Render ==
    /\ render < MaxRender
    /\ inlineCallbacks
    /\ render' = render + 1
    /\ last' = Step("render", "", 0, NoCall, <<>>)
    /\ UNCHANGED <<fixed, wakeLock, released, sentinels, listeners, visibilityState, pending>>

\* the calls of the application and the steps of the platform
Run ==
    \/ \E kind \in Kinds : Request(kind)
    \/ Release
    \/ Destroy
    \/ \E o \in BagToSet(pending) : AcquireResolve(o)
    \/ \E o \in BagToSet(pending), e \in Errors : AcquireReject(o, e)
    \/ \E o \in BagToSet(pending) : ReleaseComplete(o)
    \/ \E o \in BagToSet(pending) : DestroyComplete(o)
    \/ \E h \in DOMAIN sentinels : PlatformRelease(h)
    \/ \E vis \in {"visible", "hidden"} : VisibilityChange(vis)

Next == Run \/ Render

Spec == Init /\ [][Next]_vars

\* the hook used with callbacks that keep their identity (request and destroy
\* are those of the first render throughout, so later renders change nothing),
\* with the state each request call was made in recorded
InitCalls == Start(TRUE) /\ ~inlineCallbacks

SpecCalls == InitCalls /\ [][Run]_vars

----------------------------------------------------------------------------
\* what the claims speak of

Calls == {"request", "release", "destroy"}

Unreleased == {h \in DOMAIN sentinels : ~sentinels[h].released}

controller == <<wakeLock, released, sentinels, listeners, pending>>

\* C1: when the capability is absent, every call to request, release or
\* destroy logs exactly one warning, makes no platform call, invokes no
\* callback and leaves the handle, the status, the subscription (and the
\* platform) as they were.
C1_UnsupportedIsNoOp ==
    [][(~isSupported /\ last'.op \in Calls) =>
         (last'.eff = <<Eff("warn")>> /\ UNCHANGED controller)]_vars

C1_Witness == ~isSupported /\ last.op = "request" /\ visibilityState = "hidden"

\* C2: with the capability present and no current handle (also while a
\* request is in flight, or after a destroy), release and destroy log a
\* warning, make no platform call, do not invoke onDestroy and leave the
\* handle, the status and the subscription unchanged.
C2_NoHandleIsNoOp ==
    [][(isSupported /\ wakeLock = 0 /\ last'.op \in {"release", "destroy"}) =>
         (last'.eff = <<Eff("warn")>> /\ UNCHANGED controller)]_vars

C2_Witness ==
    /\ isSupported /\ wakeLock = 0 /\ last.op = "destroy"
    /\ \E o \in BagToSet(pending) : o.t = "acquire"

\* C3: when the acquire of a request succeeds, the ref holds the new
\* sentinel, type is the requested kind, released is false unless the new
\* sentinel reads released, onRequest has run exactly once and onError not at
\* all (neither of them runs in the call before the await).
C3_AfterSuccessfulRequest ==
    /\ last.op = "acquired" =>
          /\ wakeLock = Len(sentinels) /\ wakeLock = last.h /\ wakeLock # 0
          /\ Type = last.kind
          /\ released = IF Truthy(ReleasedRead(sentinels, wakeLock)) THEN "true" ELSE "false"
          /\ Count(last.eff, "onRequest") = 1
          /\ Count(last.eff, "onError") = 0
    /\ last.op = "request" =>
          Count(last.eff, "onRequest") = 0 /\ Count(last.eff, "onError") = 0

C3_Witness ==
    /\ last.op = "acquired" /\ ~releasedFieldSupported /\ released = "false"
    /\ Len(sentinels) = 2 /\ sentinels[1].released

\* C4 as claimed: a request whose acquire rejects with E invokes onError
\* exactly once with E, never onRequest, and settles with the ref and
\* released as they were immediately before the call.
C4_AsClaimed ==
    last.op = "rejected" =>
        /\ last.eff = <<[e |-> "onError", arg |-> last.err]>>
        /\ wakeLock = last.call.wakeLock
        /\ released = last.call.released

\* C4 as amended: a request whose acquire rejects with E invokes onError
\* exactly once with E, never onRequest, and its handling of the rejection
\* changes neither the ref, nor released, nor the subscription: they keep the
\* values they had when the rejection was delivered (which differ from those
\* before the call when the request tore a current sentinel down, or when
\* another operation settled in between).
C4_RejectionChangesNothing ==
    [][last'.op = "rejected" =>
         /\ last'.err \in Errors
         /\ last'.eff = <<[e |-> "onError", arg |-> last'.err]>>
         /\ UNCHANGED <<wakeLock, released, sentinels, listeners>>]_vars

C4_Witness ==
    /\ last.op = "rejected" /\ last.err = "AbortError"
    /\ last.call.wakeLock # 0 /\ wakeLock = 0

\* C5 as claimed: when the destroy of a current sentinel completes, the
\* sentinel's release has settled, the ref is null, no visibilitychange
\* listener is registered and onDestroy has run exactly once.
C5_AfterDestroy ==
    last.op = "destroyed" =>
        /\ last.h \notin Unreleased
        /\ wakeLock = 0
        /\ listeners = {}
        /\ Count(last.eff, "onDestroy") = 1

\* C6 as claimed: when request is called with a current sentinel, the
\* teardown of that sentinel (its release settled, the listener removed, the
\* ref cleared) is complete when the acquire of the new one is issued.
C6_TeardownBeforeAcquire ==
    (last.op = "request" /\ last.h # 0 /\ Count(last.eff, "acquire") > 0) =>
        /\ wakeLock = 0
        /\ listeners = {}
        /\ \A o \in BagToSet(pending) : ~(o.t = "destroy" /\ o.h = last.h)

\* C7 as claimed: at most one sentinel acquired by the hook is unreleased.
C7_AtMostOneHeld == Cardinality(Unreleased) <= 1

\* a step ends in the state a single successful request ends in, with h the
\* sentinel held
EndsHeld(h) ==
    /\ wakeLock' = h
    /\ Unreleased' = {h}
    /\ released' = "false"
    /\ listeners' # {}

\* C8 as claimed: request called with a current sentinel, its acquire
\* succeeding, ends (once nothing is pending) as a single successful request
\* does, whichever of the new acquire and the old sentinel's teardown
\* settles last.
C8_SupersedingRequest ==
    [][/\ (last'.op = "acquired" /\ last'.call.wakeLock # 0 /\ pending' = EmptyBag)
           => EndsHeld(last'.h)
       /\ (/\ last.op = "acquired" /\ last.call.wakeLock # 0
           /\ last'.op = "destroyed" /\ last'.h = last.call.wakeLock
           /\ pending' = EmptyBag)
           => EndsHeld(last.h)]_vars

\* C9 as claimed: a visibility change to "visible" with released true and a
\* sentinel in the ref issues exactly one acquire; with released false it
\* issues none; whether or not the platform implements the released field.
C9_VisibleReacquires ==
    (last.op = "visibilitychange" /\ visibilityState = "visible") =>
        /\ (released = "true" /\ wakeLock # 0) => Count(last.eff, "acquire") = 1
        /\ released = "false" => Count(last.eff, "acquire") = 0

\* C10: release called with a current sentinel calls that sentinel's
\* release() exactly once and nothing else: the ref keeps the same sentinel,
\* the listener stays registered, onDestroy is not invoked, and released
\* changes only when the sentinel's release event runs its onrelease handler.
C10_ReleaseKeepsRefAndListener ==
    [][/\ (last'.op = "release" /\ isSupported /\ wakeLock # 0) =>
            /\ last'.eff = <<Eff("release")>>
            /\ last'.h = wakeLock
            /\ UNCHANGED <<wakeLock, released, sentinels, listeners>>
       /\ last'.op = "released" =>
            /\ UNCHANGED <<wakeLock, listeners>>
            /\ last'.h \notin Unreleased'
            /\ Count(last'.eff, "release") = 0
            /\ Count(last'.eff, "onDestroy") = 0
            /\ Count(last'.eff, "unsubscribe") = 0
            /\ released' # released => Count(last'.eff, "onRelease") = 1]_vars

C10_Witness ==
    /\ last.op = "released" /\ wakeLock = last.h /\ listeners # {}
    /\ released = "true" /\ Count(last.eff, "onRelease") = 1

\* C11: no step of request, release or destroy ends with an error thrown to
\* its caller: an acquire rejection is caught and reported through onError
\* alone, and every request whose acquire succeeds, also one called after
\* such a failure, returns with the new sentinel in the ref, unreleased, and
\* the listener registered.
C11_NoErrorOutcome ==
    /\ last.thrown = ""
    /\ last.op = "rejected" =>
          /\ Count(last.eff, "onError") = 1
          /\ Len(last.eff) = 1
          /\ last.eff[1].arg = last.err
    /\ last.op = "acquired" =>
          /\ wakeLock = last.h
          /\ last.h \in Unreleased
          /\ listeners # {}

C11_Witness ==
    /\ last.op = "acquired" /\ last.call.after = "rejected"
    /\ wakeLock = last.h /\ last.h \in Unreleased

\* the sentinel in the ref reads released: the field exists and is true
ReadsReleased ==
    wakeLock # 0 /\ releasedFieldSupported /\ sentinels[wakeLock].released

\* C12: a visibilitychange event makes each registered handler call request
\* (kind "screen", which tears the current sentinel down and issues one
\* acquire) exactly when the document is then visible, the ref holds a
\* sentinel and that sentinel reads released; in every other case the event
\* makes no platform call and changes neither the ref, nor released, nor the
\* sentinels, nor the listeners, nor the pending promises.
C12_VisibilityHandler ==
    [][last'.op = "visibilitychange" =>
         IF visibilityState' = "visible" /\ ReadsReleased
         THEN /\ Count(last'.eff, "acquire") = Cardinality(listeners)
              /\ Count(last'.eff, "release") = Cardinality(listeners)
              /\ Len(last'.eff) = 2 * Cardinality(listeners)
              /\ \A o \in BagToSet(pending') :
                     o.t = "acquire" => o.kind = "screen"
              /\ BagCardinality(pending') =
                     BagCardinality(pending) + 2 * Cardinality(listeners)
              /\ UNCHANGED <<wakeLock, released, sentinels, listeners>>
         ELSE last'.eff = <<>> /\ UNCHANGED controller]_vars

C12_Witness ==
    /\ last.op = "visibilitychange" /\ visibilityState = "visible"
    /\ ReadsReleased /\ Count(last.eff, "acquire") = 1
    /\ \E o \in BagToSet(pending) : o.t = "acquire" /\ o.kind = "screen"

\* C13 as claimed: the ref holds a sentinel exactly when a request has
\* succeeded and neither a release nor a destroy has completed since: it
\* holds one when an acquire has just succeeded and none when a release or a
\* destroy has just completed.
C13_AsClaimed ==
    /\ last.op = "acquired" => wakeLock # 0
    /\ last.op \in {"released", "destroyed"} => wakeLock = 0

\* C13 as amended: the ref holds a sentinel exactly when a request has
\* succeeded and no destroy has completed since.  The ref is null at first,
\* a successful acquire sets it, a completed destroy clears it and no other
\* step, a completed release included, changes it.
C13_RefSetByAcquireClearedByDestroy ==
    [][/\ last'.op = "acquired" => wakeLock' # 0
       /\ last'.op = "destroyed" => wakeLock' = 0
       /\ last'.op \notin {"acquired", "destroyed"} => wakeLock' = wakeLock]_vars

C13_Witness ==
    /\ last.op = "released" /\ wakeLock # 0 /\ wakeLock = last.h
    /\ sentinels[wakeLock].released /\ pending = EmptyBag

\* C14 as claimed: once a request call has ended, whatever its outcome
\* (here: its acquire was rejected, or the capability is absent), released
\* is no longer undefined.
C14_AsClaimed ==
    (last.op = "rejected" \/ (last.op = "request" /\ ~isSupported)) =>
        released # "undefined"

\* C14 as amended: released is undefined exactly in the states in which no
\* request has succeeded yet; request calls that are in flight, were
\* rejected, or were made without the capability leave it undefined.
C14_UndefinedUntilFirstSuccess ==
    released = "undefined" <=> sentinels = <<>>

C14_Witness ==
    /\ last.op = "rejected" /\ released = "undefined" /\ sentinels = <<>>
    /\ pending = EmptyBag

\* C15 as claimed: when no promise is pending, released is false exactly
\* when the ref holds a sentinel that is unreleased at the platform, and true
\* exactly when a request has succeeded and no sentinel the hook acquired is
\* unreleased.
C15_StatusAgreesWithPlatform ==
    pending = EmptyBag =>
        /\ released = "false" <=> (wakeLock # 0 /\ wakeLock \in Unreleased)
        /\ released = "true" <=> (sentinels # <<>> /\ Unreleased = {})

\* C16: in every step in which a sentinel acquired by the hook becomes
\* released (the platform releases it, or the release() called by release or
\* by destroy settles), its onrelease handler sets released to true,
\* whatever the released field of the sentinel in the ref reads (true, false,
\* absent, or no sentinel), and calls onRelease exactly once; a step in
\* which no sentinel becomes released calls neither.
C16_ReleaseCallback ==
    [][IF Unreleased \ Unreleased' # {}
       THEN /\ Unreleased \ Unreleased' = {last'.h}
            /\ last'.op \in {"platformRelease", "released", "destroyed"}
            /\ released' = "true"
            /\ Count(last'.eff, "setReleased") = 1
            /\ Count(last'.eff, "onRelease") = 1
       ELSE Count(last'.eff, "onRelease") = 0]_vars

C16_Witness ==
    /\ last.op = "platformRelease" /\ releasedFieldSupported
    /\ wakeLock # 0 /\ wakeLock # last.h /\ wakeLock \in Unreleased
    /\ released = "true" /\ Count(last.eff, "onRelease") = 1

\* C17 as claimed: at most one visibilitychange listener of the hook is
\* registered, and when no promise is pending one is registered exactly when
\* the ref holds a sentinel.
C17_AtMostOneSubscription ==
    /\ Cardinality(listeners) <= 1
    /\ pending = EmptyBag => (listeners # {} <=> wakeLock # 0)

\* a step ends with sentinel h in the ref, unreleased, and a listener
\* registered: the next hide/show cycle can recover again
Recovered(h) ==
    /\ wakeLock' = h
    /\ h \in Unreleased'
    /\ listeners' # {}

\* C18 as claimed: when handleVisibilityReturn has called request for a
\* sentinel that the platform released and the acquire succeeds, the hook ends
\* (once nothing is pending) with the new sentinel in the ref, unreleased, and
\* the listener registered, whichever of the new acquire and the old
\* sentinel's teardown settles last.
C18_RecoversEveryCycle ==
    [][/\ (last'.op = "acquired" /\ last'.call.auto /\ pending' = EmptyBag)
           => Recovered(last'.h)
       /\ (/\ last.op = "acquired" /\ last.call.auto
           /\ last'.op = "destroyed" /\ last'.h = last.call.wakeLock
           /\ pending' = EmptyBag)
           => Recovered(last.h)]_vars

\* C19: when a release called by the application on the sentinel in the ref
\* completes, the ref still holds that sentinel and the listener is still
\* registered; and when the document then becomes visible while that
\* sentinel reads released, handleVisibilityReturn calls request, which
\* issues an acquire, with no request call from the application.
C19_ReleaseThenVisibleReacquires ==
    [][/\ (last'.op = "released" /\ last'.h = wakeLock) =>
            /\ UNCHANGED <<wakeLock, listeners>>
            /\ listeners' # {}
       /\ (/\ last.op = "released" /\ last.h = wakeLock
           /\ last'.op = "visibilitychange" /\ visibilityState' = "visible"
           /\ ReadsReleased) =>
            /\ Count(last'.eff, "acquire") = Cardinality(listeners)
            /\ \E o \in BagToSet(pending') :
                   /\ o.t = "acquire" /\ o.call.auto
                   /\ o.call.after = "released" /\ o.call.wakeLock = last.h]_vars

C19_Witness ==
    /\ last.op = "acquired" /\ last.call.auto /\ last.call.after = "released"
    /\ wakeLock = last.h /\ last.h \in Unreleased /\ last.call.wakeLock # 0

====
